---- MODULE Spec2Model ----
(***************************************************************************)
(* State-machine model of the game engine of pacman_k3.py (class Game).    *)
(*                                                                         *)
(* The model keeps the simulation state of Game: the maze, the player,     *)
(* the adversaries, the collectibles, the score/lives/level scalars, the   *)
(* timers and the flags.  Fields that only serve drawing (char, colours,   *)
(* kindle_mode, prev_pacman_pos, prev_ghost_positions) are not modelled.   *)
(*                                                                         *)
(* One iteration of Game.run reads a key and, when the game is neither     *)
(* over nor won and the tick interval has elapsed, runs move_pacman,       *)
(* move_ghosts and check_collisions.  The model takes the key handlers as  *)
(* actions of their own and splits the tick into its steps: MovePacman,    *)
(* MoveGhostsBegin (the expiry checks that open move_ghosts), one          *)
(* MoveGhost step per adversary of the loop, and CheckCollisions.          *)
(* An exception that nothing catches ends the program: pc = "fault".       *)
(*                                                                         *)
(* Time: time.time() is read in whole time-units (seconds).  Only the      *)
(* differences current_time - power_mode_time and                          *)
(* current_time - fruit_spawn_time are ever used, so the model stores      *)
(* these two differences (power_elapsed, fruit_elapsed), saturated one     *)
(* unit above the constant they are compared with.                         *)
(***************************************************************************)
EXTENDS Integers, Sequences, FiniteSets, TLC

(***************************************************************************)
(* Points and directions                                                   *)
(***************************************************************************)
Point(y, x) == [y |-> y, x |-> x]

\* None, for an optional Point (no such cell in the maze).
NoPoint == [y |-> -1, x |-> -1]

\* The four (dy, dx) pairs of get_valid_directions.
Directions == { [dy |-> -1, dx |-> 0], [dy |-> 1, dx |-> 0],
                [dy |-> 0, dx |-> -1], [dy |-> 0, dx |-> 1] }

(***************************************************************************)
(* Maze files.  A file is the list of its lines as readlines() returns     *)
(* them: each line a list of characters, the newline included (written     *)
(* "NL") except on a last line that has none.  A name with no file stands  *)
(* for a missing or unreadable maze source.                                *)
(***************************************************************************)
\* A corridor with a tunnel, two adversaries, a pellet and a power pill.
CorridorLines ==
  << << "<", ".", "c", "o", "n", "n", ">" >> >>

\* A dead-end lane with one adversary, a pellet and a power pill.
LaneLines ==
  << << "n", ".", "o", "c" >> >>

\* A corridor with a tunnel, two power pills, a pellet and one adversary.
PillsLines ==
  << << "<", "o", "c", "o", ".", "n", ">" >> >>

\* Two rows that form a ring of six cells: the adversary in a corner, a
\* power pill, and under them the player and two pellets.  The first row
\* ends with its newline, which load_map keeps as a cell of the row.
BlockLines ==
  << << "n", "o", "NL" >>,
     << "c", ".", "." >> >>

\* A board with a player and an adversary and nothing to collect.
BareLines ==
  << << "n", " ", "c" >> >>

\* A lane where the two adversaries start on both sides of the player.
BesideLines ==
  << << "n", "c", "n", "." >> >>

\* Two rows with a wall and a tunnel in the first: "<#n>" and "c   .". The
\* first row is read with its newline.
YardLines ==
  << << "<", "#", "n", ">", "NL" >>,
     << "c", " ", " ", " ", "." >> >>

\* The pellets of the orchard maze before and after the bonus-item home.
OrchardBefore == 69
OrchardAfter == 102

\* A long lane with a bonus-item home among the pellets and no adversary:
\* "c", OrchardBefore pellets, "@", OrchardAfter pellets.
OrchardLines ==
  << [k \in 1..(OrchardBefore + OrchardAfter + 2) |->
        CASE k = 1 -> "c"
          [] k = OrchardBefore + 2 -> "@"
          [] OTHER -> "."] >>

\* A shorter lane with a bonus-item home where the adversary meets the
\* player: ">#c", OrchardBefore pellets, "@.<n#.".  The tunnel end ">" is
\* closed in: whoever goes through the tunnel from "<" stays on it, so the
\* adversary ends up there and the player finds it there.  The last pellet
\* is behind a wall.
GroveLines ==
  << [k \in 1..(OrchardBefore + 9) |->
        CASE k = 1 -> ">"
          [] k = 2 -> "#"
          [] k = 3 -> "c"
          [] k = OrchardBefore + 4 -> "@"
          [] k = OrchardBefore + 6 -> "<"
          [] k = OrchardBefore + 7 -> "n"
          [] k = OrchardBefore + 8 -> "#"
          [] OTHER -> "."] >>

\* "missing" is the name of no file: open() raises and load_map keeps [].
FileExists(name) ==
  name \in {"corridor", "lane", "pills", "block", "bare", "beside", "yard",
            "orchard", "grove"}

FileLines(name) ==
  CASE name = "corridor" -> CorridorLines
    [] name = "lane" -> LaneLines
    [] name = "pills" -> PillsLines
    [] name = "block" -> BlockLines
    [] name = "bare" -> BareLines
    [] name = "beside" -> BesideLines
    [] name = "yard" -> YardLines
    [] name = "orchard" -> OrchardLines
    [] name = "grove" -> GroveLines
    [] OTHER -> << >>

(***************************************************************************)
(* Game.load_map                                                           *)
(***************************************************************************)
\* line.rstrip('\\n'): the argument is the two characters backslash and n,
\* so trailing backslashes and letters n are stripped, and a newline is not.
RECURSIVE RStrip(_)
RStrip(line) ==
  IF line = << >> THEN line
  ELSE IF line[Len(line)] \in {"\\", "n"}
       THEN RStrip(SubSeq(line, 1, Len(line) - 1))
       ELSE line

RECURSIVE MaxLen(_)
MaxLen(rows) ==
  IF rows = << >> THEN 0
  ELSE LET m == MaxLen(Tail(rows))
       IN IF Len(Head(rows)) > m THEN Len(Head(rows)) ELSE m

PadRow(row, width) ==
  [k \in 1..width |-> IF k <= Len(row) THEN row[k] ELSE " "]

\* original_map, height and width as load_map leaves them.
LoadMap(name) ==
  LET lines == IF FileExists(name) THEN FileLines(name) ELSE << >>
      rows  == [k \in 1..Len(lines) |-> RStrip(lines[k])]
      w     == MaxLen(rows)
  IN [height |-> Len(rows), width |-> w,
      grid |-> [k \in 1..Len(rows) |-> PadRow(rows[k], w)]]

(***************************************************************************)
(* Game.parse_map                                                          *)
(***************************************************************************)
\* The cells in the order of the two enumerate loops (row by row).
CellsInOrder(m) ==
  [k \in 1..(m.height * m.width) |->
     Point((k - 1) \div m.width, (k - 1) % m.width)]

CharAt(m, p) == m.grid[p.y + 1][p.x + 1]

CellsOf(m, ch) ==
  SelectSeq(CellsInOrder(m), LAMBDA p : CharAt(m, p) = ch)

\* A field assigned at every occurrence keeps the last one; None if none.
LastOrNone(s) == IF s = << >> THEN NoPoint ELSE s[Len(s)]

SeqToSet(s) == { s[k] : k \in 1..Len(s) }

\* The world parse_map builds: what stays fixed for the run of the program.
ParseMap(m) ==
  [height |-> m.height,
   width  |-> m.width,
   \* original_map after parse_map: only '#' is ever tested afterwards
   wall   |-> { p \in SeqToSet(CellsInOrder(m)) : CharAt(m, p) = "#" },
   pacman_start |-> LastOrNone(CellsOf(m, "c")),
   ghost_starts |-> CellsOf(m, "n"),
   initial_fruit |-> LastOrNone(CellsOf(m, "@")),
   warp_left  |-> LastOrNone(CellsOf(m, "<")),
   warp_right |-> LastOrNone(CellsOf(m, ">")),
   initial_pellets |-> SeqToSet(CellsOf(m, ".")),
   initial_power_pills |-> SeqToSet(CellsOf(m, "o"))]

\* The world of each maze file, built once.
CorridorWorld == ParseMap(LoadMap("corridor"))
LaneWorld == ParseMap(LoadMap("lane"))
PillsWorld == ParseMap(LoadMap("pills"))
BlockWorld == ParseMap(LoadMap("block"))
BareWorld == ParseMap(LoadMap("bare"))
BesideWorld == ParseMap(LoadMap("beside"))
YardWorld == ParseMap(LoadMap("yard"))
OrchardWorld == ParseMap(LoadMap("orchard"))
GroveWorld == ParseMap(LoadMap("grove"))
MissingWorld == ParseMap(LoadMap("missing"))


(***************************************************************************)
(* Program constants                                                       *)
(***************************************************************************)
InitialLives == 3
InitialLevel == 1
\* speed, in hundredths of a time-unit: 0.15, lowered by 0.01 down to 0.08
InitialSpeed == 15
SpeedStep == 1
SpeedFloor == 8
PelletScore == 10
PowerPillScore == 50
FruitScore == 100
GhostScore == 200
ExtraLifeScore == 10000
FruitDots70 == 70
FruitDots170 == 170
PowerSeconds == 6
FruitSeconds == 10
\* power_mode_time = 0: power mode is not running
NoTimer == -1

(***************************************************************************)
(* Bounds of the model                                                     *)
(***************************************************************************)
\* Advance commands accepted in a row are capped (level is unbounded).
MaxAdvances == 1
\* The levels already cleared when a behaviour of SpecLate starts.
LevelsCleared == 38
\* The levels already cleared when a behaviour of SpecLevels starts one
\* step above the floor of the tick interval.
LevelsNearFloor == 6
\* The time that passes from one tick to the next is 1..MaxDt time-units.
MaxDt == 2

(***************************************************************************)
(* State                                                                   *)
(***************************************************************************)
VARIABLES
  map_file,            \* the maze file the game was constructed with
  pacman,              \* self.pacman: y, x, dy, dx, next_dy, next_dx
  ghosts,              \* self.ghosts: sequence of y, x, dy, dx, frightened
  pellets, power_pills, pellets_remaining,
  score, lives, level, game_over, won, extra_life_awarded,
  power_elapsed,       \* NoTimer, or time since power_mode_time was set
  fruit_active,
  fruit_elapsed,       \* time since fruit_spawn_time was set (0 if inactive)
  dots_eaten, fruit_triggered_70, fruit_triggered_170,
  speed,
  pc,                  \* position of Game.run: loop, ghosts, ghost, sweep,
                       \* quit (left the loop) or fault (uncaught exception)
  gi,                  \* index of the adversary move_ghosts handles next
  pm,                  \* what move_pacman did in the running tick
  ev                   \* what the last adversary step of the tick did

gameVars == << pacman, ghosts, pellets, power_pills, pellets_remaining,
               score, lives, level, game_over, won, extra_life_awarded,
               power_elapsed, fruit_active, fruit_elapsed, dots_eaten,
               fruit_triggered_70, fruit_triggered_170, speed >>

vars == << map_file, gameVars, pc, gi, pm, ev >>

\* The world of the running game.
W ==
  CASE map_file = "corridor" -> CorridorWorld
    [] map_file = "lane" -> LaneWorld
    [] map_file = "pills" -> PillsWorld
    [] map_file = "block" -> BlockWorld
    [] map_file = "bare" -> BareWorld
    [] map_file = "beside" -> BesideWorld
    [] map_file = "yard" -> YardWorld
    [] map_file = "orchard" -> OrchardWorld
    [] map_file = "grove" -> GroveWorld
    [] OTHER -> MissingWorld

\* The mutable fields of Game, gathered in one record.
St ==
  [pacman |-> pacman, ghosts |-> ghosts, pellets |-> pellets,
   power_pills |-> power_pills, pellets_remaining |-> pellets_remaining,
   score |-> score, lives |-> lives, level |-> level,
   game_over |-> game_over, won |-> won,
   extra_life_awarded |-> extra_life_awarded,
   power_elapsed |-> power_elapsed, fruit_active |-> fruit_active,
   fruit_elapsed |-> fruit_elapsed, dots_eaten |-> dots_eaten,
   fruit_triggered_70 |-> fruit_triggered_70,
   fruit_triggered_170 |-> fruit_triggered_170, speed |-> speed]

SetState(s) ==
  /\ pacman' = s.pacman
  /\ ghosts' = s.ghosts
  /\ pellets' = s.pellets
  /\ power_pills' = s.power_pills
  /\ pellets_remaining' = s.pellets_remaining
  /\ score' = s.score
  /\ lives' = s.lives
  /\ level' = s.level
  /\ game_over' = s.game_over
  /\ won' = s.won
  /\ extra_life_awarded' = s.extra_life_awarded
  /\ power_elapsed' = s.power_elapsed
  /\ fruit_active' = s.fruit_active
  /\ fruit_elapsed' = s.fruit_elapsed
  /\ dots_eaten' = s.dots_eaten
  /\ fruit_triggered_70' = s.fruit_triggered_70
  /\ fruit_triggered_170' = s.fruit_triggered_170
  /\ speed' = s.speed

\* The fields of Game at the start of a behaviour.
StartsAs(s) ==
  /\ pacman = s.pacman
  /\ ghosts = s.ghosts
  /\ pellets = s.pellets
  /\ power_pills = s.power_pills
  /\ pellets_remaining = s.pellets_remaining
  /\ score = s.score
  /\ lives = s.lives
  /\ level = s.level
  /\ game_over = s.game_over
  /\ won = s.won
  /\ extra_life_awarded = s.extra_life_awarded
  /\ power_elapsed = s.power_elapsed
  /\ fruit_active = s.fruit_active
  /\ fruit_elapsed = s.fruit_elapsed
  /\ dots_eaten = s.dots_eaten
  /\ fruit_triggered_70 = s.fruit_triggered_70
  /\ fruit_triggered_170 = s.fruit_triggered_170
  /\ speed = s.speed

\* self.pacman = None
NoPacman == [y |-> -1, x |-> -1, dy |-> 0, dx |-> 0, next_dy |-> 0, next_dx |-> 0]

HasPacman(p) == p.y >= 0

NewPacman(start) ==
  [y |-> start.y, x |-> start.x, dy |-> 0, dx |-> 0, next_dy |-> 0, next_dx |-> 0]

NewGhost(start) ==
  [y |-> start.y, x |-> start.x, dy |-> 0, dx |-> 0, frightened |-> FALSE]

PosOf(a) == Point(a.y, a.x)

\* No event recorded (outside a tick).
NoMove ==
  [kind |-> "none", from |-> NoPoint, to |-> NoPoint, fr |-> {}, lives |-> 0]
NoEvent == [kind |-> "none", g |-> 0, from |-> NoPoint, to |-> NoPoint,
            pat |-> NoPoint, hit |-> FALSE, frightened |-> FALSE]

\* Game.__init__ followed by parse_map.
InitState(w) ==
  [pacman |-> IF w.pacman_start = NoPoint THEN NoPacman
              ELSE NewPacman(w.pacman_start),
   ghosts |-> [k \in 1..Len(w.ghost_starts) |-> NewGhost(w.ghost_starts[k])],
   pellets |-> w.initial_pellets,
   power_pills |-> w.initial_power_pills,
   pellets_remaining |->
     Cardinality(w.initial_pellets) + Cardinality(w.initial_power_pills),
   score |-> 0, lives |-> InitialLives, level |-> InitialLevel,
   game_over |-> FALSE, won |-> FALSE, extra_life_awarded |-> FALSE,
   power_elapsed |-> NoTimer, fruit_active |-> FALSE, fruit_elapsed |-> 0,
   dots_eaten |-> 0, fruit_triggered_70 |-> FALSE,
   fruit_triggered_170 |-> FALSE, speed |-> InitialSpeed]

(***************************************************************************)
(* Maze queries                                                            *)
(***************************************************************************)
\* Faulty variant: the cell is not compared with '#'.
IsValidMoveThroughWalls(w, y, x) ==
  0 <= y /\ y < w.height /\ 0 <= x /\ x < w.width

IsValidMove(w, y, x) ==
  /\ 0 <= y /\ y < w.height /\ 0 <= x /\ x < w.width
  /\ Point(y, x) \notin w.wall

GetValidDirections(w, y, x) ==
  { d \in Directions : IsValidMove(w, y + d.dy, x + d.dx) }

IsJunction(w, y, x) == Cardinality(GetValidDirections(w, y, x)) > 2

\* "if self.warp_left and self.warp_right"
HasWarp(w) == w.warp_left /= NoPoint /\ w.warp_right /= NoPoint


(***************************************************************************)
(* Timers                                                                  *)
(***************************************************************************)
Min(a, b) == IF a < b THEN a ELSE b

\* dt time-units pass before the next tick reads time.time().
Elapse(s, dt) ==
  [s EXCEPT
     !.power_elapsed = IF @ = NoTimer THEN NoTimer
                       ELSE Min(@ + dt, PowerSeconds + 1),
     !.fruit_elapsed = IF s.fruit_active THEN Min(@ + dt, FruitSeconds + 1)
                       ELSE @]

(***************************************************************************)
(* Game.check_extra_life, Game.spawn_fruit, Game.update_fruit              *)
(***************************************************************************)
\* Faulty variant: the award is not guarded by extra_life_awarded.
CheckExtraLifeUnguarded(s) ==
  IF s.score >= ExtraLifeScore
  THEN [s EXCEPT !.lives = @ + 1, !.extra_life_awarded = TRUE]
  ELSE s

CheckExtraLife(s) ==
  IF ~s.extra_life_awarded /\ s.score >= ExtraLifeScore
  THEN [s EXCEPT !.lives = @ + 1, !.extra_life_awarded = TRUE]
  ELSE s

SpawnFruit(w, s) ==
  IF w.initial_fruit /= NoPoint
  THEN [s EXCEPT !.fruit_active = TRUE, !.fruit_elapsed = 0]
  ELSE s

\* Faulty variant: the bonus item expires when exactly 10 time-units passed.
UpdateFruitAtTen(s) ==
  IF s.fruit_active /\ s.fruit_elapsed >= FruitSeconds
  THEN [s EXCEPT !.fruit_active = FALSE, !.fruit_elapsed = 0]
  ELSE s

UpdateFruit(s) ==
  IF s.fruit_active /\ s.fruit_elapsed > FruitSeconds
  THEN [s EXCEPT !.fruit_active = FALSE, !.fruit_elapsed = 0]
  ELSE s

\* Faulty variant: the first trigger fires at every pickup from the 70th on.
FruitTriggersFromSeventy(w, s) ==
  IF s.dots_eaten >= FruitDots70
  THEN [SpawnFruit(w, s) EXCEPT !.fruit_triggered_70 = TRUE]
  ELSE s

\* The two "fruit spawn triggers" of a pickup.
FruitTriggers(w, s) ==
  IF s.dots_eaten = FruitDots70 /\ ~s.fruit_triggered_70
  THEN [SpawnFruit(w, s) EXCEPT !.fruit_triggered_70 = TRUE]
  ELSE IF s.dots_eaten = FruitDots170 /\ ~s.fruit_triggered_170
       THEN [SpawnFruit(w, s) EXCEPT !.fruit_triggered_170 = TRUE]
       ELSE s

(***************************************************************************)
(* Game.move_pacman                                                        *)
(***************************************************************************)
\* "Try to change direction if new direction pressed"
ApplyBuffer(w, p) ==
  IF (p.next_dy /= 0 \/ p.next_dx /= 0)
     /\ IsValidMove(w, p.y + p.next_dy, p.x + p.next_dx)
  THEN [p EXCEPT !.dy = p.next_dy, !.dx = p.next_dx,
                 !.next_dy = 0, !.next_dx = 0]
  ELSE p

\* Which branch "Continue in current direction" takes for player p.
PacmanMoveKind(w, p) ==
  IF p.dy = 0 /\ p.dx = 0 THEN "stay"
  ELSE IF HasWarp(w) /\ PosOf(p) = w.warp_left /\ p.dx < 0 THEN "warp"
  ELSE IF HasWarp(w) /\ PosOf(p) = w.warp_right /\ p.dx > 0 THEN "warp"
  ELSE IF IsValidMove(w, p.y + p.dy, p.x + p.dx) THEN "step"
  ELSE "stop"

\* Faulty variant: the two tunnel endpoints are swapped, so the player is
\* put back on the endpoint it stands on.
PacmanWarpKeepsPlace(w, p) ==
  IF p.dx < 0 THEN [p EXCEPT !.y = w.warp_left.y, !.x = w.warp_left.x]
  ELSE [p EXCEPT !.y = w.warp_right.y, !.x = w.warp_right.x]

\* The relocation of a player that stands on a tunnel endpoint.
PacmanWarp(w, p) ==
  IF p.dx < 0 THEN [p EXCEPT !.y = w.warp_right.y, !.x = w.warp_right.x]
  ELSE [p EXCEPT !.y = w.warp_left.y, !.x = w.warp_left.x]

PacmanContinue(w, p) ==
  CASE PacmanMoveKind(w, p) = "stay" -> p
    [] PacmanMoveKind(w, p) = "warp" -> PacmanWarp(w, p)
    [] PacmanMoveKind(w, p) = "step" -> [p EXCEPT !.y = @ + p.dy, !.x = @ + p.dx]
    [] PacmanMoveKind(w, p) = "stop" -> [p EXCEPT !.dy = 0, !.dx = 0]

\* Faulty variant: pellets_remaining is not decremented.
EatPelletKeepsCount(s, pos) ==
  IF pos \in s.pellets
  THEN [s EXCEPT !.pellets = @ \ {pos},
                 !.score = @ + PelletScore,
                 !.dots_eaten = @ + 1]
  ELSE s

\* "Check for pellet collection", up to check_extra_life.
EatPellet(s, pos) ==
  IF pos \in s.pellets
  THEN [s EXCEPT !.pellets = @ \ {pos},
                 !.score = @ + PelletScore,
                 !.pellets_remaining = @ - 1,
                 !.dots_eaten = @ + 1]
  ELSE s

\* Faulty variant: only the first adversary is frightened.
EatPowerPillFirstGhostOnly(s, pos) ==
  IF pos \in s.power_pills
  THEN [s EXCEPT !.power_pills = @ \ {pos},
                 !.score = @ + PowerPillScore,
                 !.pellets_remaining = @ - 1,
                 !.dots_eaten = @ + 1,
                 !.power_elapsed = 0,
                 !.ghosts = [k \in 1..Len(s.ghosts) |->
                               IF k = 1
                               THEN [s.ghosts[k] EXCEPT !.frightened = TRUE]
                               ELSE s.ghosts[k]]]
  ELSE s

\* "Check for power pill": the bookkeeping, the timer and the flags
\* (check_extra_life and the fruit triggers run in between, see Pickup).
EatPowerPill(s, pos) ==
  IF pos \in s.power_pills
  THEN [s EXCEPT !.power_pills = @ \ {pos},
                 !.score = @ + PowerPillScore,
                 !.pellets_remaining = @ - 1,
                 !.dots_eaten = @ + 1,
                 !.power_elapsed = 0,
                 !.ghosts = [k \in 1..Len(s.ghosts) |->
                               [s.ghosts[k] EXCEPT !.frightened = TRUE]]]
  ELSE s

\* "Check for fruit"
EatFruit(w, s, pos) ==
  IF w.initial_fruit /= NoPoint /\ s.fruit_active /\ pos = w.initial_fruit
  THEN CheckExtraLife([s EXCEPT !.score = @ + FruitScore,
                                !.fruit_active = FALSE,
                                !.fruit_elapsed = 0])
  ELSE s

\* "Check win condition"
CheckWin(s) ==
  IF s.pellets_remaining = 0 THEN [s EXCEPT !.won = TRUE] ELSE s

\* Lines 389-440: everything move_pacman does after the movement.
Pickup(w, s) ==
  LET pos == PosOf(s.pacman)
      s1 == IF pos \in s.pellets
            THEN FruitTriggers(w, CheckExtraLife(EatPellet(s, pos)))
            ELSE s
      s2 == IF pos \in s1.power_pills
            THEN FruitTriggers(w, CheckExtraLife(EatPowerPill(s1, pos)))
            ELSE s1
  IN CheckWin(EatFruit(w, s2, pos))

MovePacmanOp(w, s) ==
  IF ~HasPacman(s.pacman) THEN s
  ELSE LET p1 == ApplyBuffer(w, s.pacman)
           s1 == [s EXCEPT !.pacman = PacmanContinue(w, p1)]
       IN IF PacmanMoveKind(w, p1) = "warp" THEN s1   \* early return
          ELSE Pickup(w, s1)


(***************************************************************************)
(* Game.reset_positions, Game.handle_collision                             *)
(***************************************************************************)
\* What an operation yields when it raises AttributeError, an assignment
\* to a field of self.pacman in reset_positions with self.pacman None: the
\* exception and the fields of Game at that moment (at).  No caller catches
\* it, so what the callers assigned before the call stays assigned.
AttributeError(s) == [raised |-> "AttributeError", at |-> s]

Raised(r) == "raised" \in DOMAIN r

\* Faulty variant: putting the agents back on their starts also re-arms the
\* two bonus-item thresholds.
ResetPositionsRearms(w, s) ==
  IF ~HasPacman(s.pacman) THEN AttributeError(s)
  ELSE
  [s EXCEPT
     !.pacman = IF w.pacman_start /= NoPoint THEN NewPacman(w.pacman_start)
                ELSE [@ EXCEPT !.dy = 0, !.dx = 0, !.next_dy = 0, !.next_dx = 0],
     !.ghosts = [k \in 1..Len(s.ghosts) |->
                   IF k <= Len(w.ghost_starts) THEN NewGhost(w.ghost_starts[k])
                   ELSE [s.ghosts[k] EXCEPT !.dy = 0, !.dx = 0,
                                            !.frightened = FALSE]],
     !.power_elapsed = NoTimer,
     !.fruit_triggered_70 = FALSE,
     !.fruit_triggered_170 = FALSE]

ResetPositions(w, s) ==
  IF ~HasPacman(s.pacman) THEN AttributeError(s)
  ELSE
  [s EXCEPT
     !.pacman = IF w.pacman_start /= NoPoint THEN NewPacman(w.pacman_start)
                ELSE [@ EXCEPT !.dy = 0, !.dx = 0, !.next_dy = 0, !.next_dx = 0],
     !.ghosts = [k \in 1..Len(s.ghosts) |->
                   IF k <= Len(w.ghost_starts) THEN NewGhost(w.ghost_starts[k])
                   ELSE [s.ghosts[k] EXCEPT !.dy = 0, !.dx = 0,
                                            !.frightened = FALSE]],
     !.power_elapsed = NoTimer]

\* The branch of handle_collision for a frightened adversary.
EatGhost(w, s, i) ==
  [s EXCEPT
     !.score = @ + GhostScore,
     !.ghosts[i] = IF i <= Len(w.ghost_starts) THEN NewGhost(w.ghost_starts[i])
                   ELSE [@ EXCEPT !.dy = 0, !.dx = 0, !.frightened = FALSE]]

\* Faulty variant: a life is taken without looking at lives first.
LoseLifeUnguarded(w, s) ==
  IF s.lives - 1 <= 0
  THEN [s EXCEPT !.lives = @ - 1, !.game_over = TRUE]
  ELSE ResetPositions(w, [s EXCEPT !.lives = @ - 1])

\* The branch of handle_collision for an adversary that is not frightened.
LoseLife(w, s) ==
  IF s.lives > 0
  THEN IF s.lives - 1 <= 0
       THEN [s EXCEPT !.lives = @ - 1, !.game_over = TRUE]
       ELSE ResetPositions(w, [s EXCEPT !.lives = @ - 1])
  ELSE s

\* Faulty variant: the frightened flag is not looked at.
HandleCollisionFrightenedHits(w, s, i) == LoseLife(w, s)

HandleCollision(w, s, i) ==
  IF s.ghosts[i].frightened THEN EatGhost(w, s, i) ELSE LoseLife(w, s)

(***************************************************************************)
(* Game.check_ghost_collision_with_crossing, Game.check_collisions         *)
(***************************************************************************)
\* p the player, g the adversary after its move, old its place before it.
CheckGhostCollisionWithCrossing(p, g, old) ==
  /\ HasPacman(p)
  /\ \/ g.y = p.y /\ g.x = p.x
     \/ /\ p.y - p.dy = g.y /\ p.x - p.dx = g.x
        /\ old.y = p.y /\ old.x = p.x

\* The adversaries that share the player's cell, in list order.
CoLocated(s) ==
  { k \in 1..Len(s.ghosts) :
      s.ghosts[k].y = s.pacman.y /\ s.ghosts[k].x = s.pacman.x }

SetMin(S) == CHOOSE k \in S : \A j \in S : k <= j

\* check_collisions: the first adversary on the player's cell, and return.
CheckCollisionsOp(w, s) ==
  IF ~HasPacman(s.pacman) \/ CoLocated(s) = {} THEN s
  ELSE HandleCollision(w, s, SetMin(CoLocated(s)))

(***************************************************************************)
(* Game.move_ghosts                                                        *)
(***************************************************************************)
\* Faulty variant: power mode ends when exactly 6 time-units have passed.
ExpireTimersAtSix(s) ==
  UpdateFruit(
    IF s.power_elapsed /= NoTimer /\ s.power_elapsed >= PowerSeconds
    THEN [s EXCEPT !.power_elapsed = NoTimer,
                   !.ghosts = [k \in 1..Len(s.ghosts) |->
                                 [s.ghosts[k] EXCEPT !.frightened = FALSE]]]
    ELSE s)

\* "Check if power mode expired" and "Update fruit timer"
ExpireTimers(s) ==
  UpdateFruit(
    IF s.power_elapsed /= NoTimer /\ s.power_elapsed > PowerSeconds
    THEN [s EXCEPT !.power_elapsed = NoTimer,
                   !.ghosts = [k \in 1..Len(s.ghosts) |->
                                 [s.ghosts[k] EXCEPT !.frightened = FALSE]]]
    ELSE s)

WithDir(g, d) == [g EXCEPT !.dy = d.dy, !.dx = d.dx]

\* "Initialize ghost movement if not moving": the outcomes of random.choice.
GhostInitDir(w, g) ==
  IF g.dy = 0 /\ g.dx = 0 /\ GetValidDirections(w, g.y, g.x) /= {}
  THEN { WithDir(g, d) : d \in GetValidDirections(w, g.y, g.x) }
  ELSE {g}

\* "Random chance to change direction at junction": random.random() < 0.3
\* may or may not hold; the reverse of the velocity is excluded.
GhostJunctionDir(w, g) ==
  IF IsJunction(w, g.y, g.x)
  THEN {g} \cup { WithDir(g, d) :
                    d \in GetValidDirections(w, g.y, g.x)
                            \ {[dy |-> -g.dy, dx |-> -g.dx]} }
  ELSE {g}

\* Which branch the movement of adversary g takes.
GhostMoveKind(w, g) ==
  IF HasWarp(w) /\ PosOf(g) = w.warp_left /\ g.dx < 0 THEN "warp"
  ELSE IF HasWarp(w) /\ PosOf(g) = w.warp_right /\ g.dx > 0 THEN "warp"
  ELSE IF IsValidMove(w, g.y + g.dy, g.x + g.dx) THEN "step"
  ELSE "blocked"

\* The adversary after the movement proper (before any collision handling).
GhostMoved(w, g) ==
  CASE GhostMoveKind(w, g) = "warp" ->
         IF g.dx < 0
         THEN { [g EXCEPT !.y = w.warp_right.y, !.x = w.warp_right.x] }
         ELSE { [g EXCEPT !.y = w.warp_left.y, !.x = w.warp_left.x] }
    [] GhostMoveKind(w, g) = "step" ->
         { [g EXCEPT !.y = @ + g.dy, !.x = @ + g.dx] }
    [] GhostMoveKind(w, g) = "blocked" ->
         IF GetValidDirections(w, g.y, g.x) /= {}
         THEN { WithDir(g, d) : d \in GetValidDirections(w, g.y, g.x) }
         ELSE {g}

\* One pass of the for-loop of move_ghosts, for adversary i: every outcome
\* the random choices allow, as the state after it and the event record.
MoveGhostOutcomes(w, s, i) ==
  LET g0  == s.ghosts[i]
      old == PosOf(g0)
  IN { LET kind == GhostMoveKind(w, g2)
           s1   == [s EXCEPT !.ghosts[i] = g3]
           hit  == kind /= "blocked"
                   /\ CheckGhostCollisionWithCrossing(s.pacman, g3, old)
       IN [s  |-> IF hit THEN HandleCollision(w, s1, i) ELSE s1,
           \* the record: the move of the adversary (from, to), the place
           \* of the player at that moment (pat), whether handle_collision
           \* was called (hit) and the adversary's flag at that moment
           ev |-> [kind |-> kind, g |-> i, from |-> old, to |-> PosOf(g3),
                   pat |-> PosOf(s.pacman), hit |-> hit,
                   frightened |-> g3.frightened]] :
       <<g2, g3>> \in UNION { {<<b, c>> : c \in GhostMoved(w, b)} :
                   b \in UNION { GhostJunctionDir(w, a) : a \in GhostInitDir(w, g0) } } }


(***************************************************************************)
(* Game.next_level, Game.reset_game                                        *)
(***************************************************************************)
Max(a, b) == IF a > b THEN a ELSE b

\* Faulty variant: the tick interval is lowered without the floor.
NextLevelNoFloor(w, s) ==
  LET r == ResetPositions(w,
             [s EXCEPT
                !.level = @ + 1,
                !.won = FALSE,
                !.power_elapsed = NoTimer,
                !.fruit_active = FALSE, !.fruit_elapsed = 0,
                !.dots_eaten = 0,
                !.fruit_triggered_70 = FALSE, !.fruit_triggered_170 = FALSE,
                !.pellets = w.initial_pellets,
                !.power_pills = w.initial_power_pills,
                !.pellets_remaining =
                   Cardinality(w.initial_pellets)
                   + Cardinality(w.initial_power_pills)])
  IN IF Raised(r) THEN r ELSE [r EXCEPT !.speed = @ - SpeedStep]

NextLevel(w, s) ==
  LET r == ResetPositions(w,
             [s EXCEPT
                !.level = @ + 1,
                !.won = FALSE,
                !.power_elapsed = NoTimer,
                !.fruit_active = FALSE, !.fruit_elapsed = 0,
                !.dots_eaten = 0,
                !.fruit_triggered_70 = FALSE, !.fruit_triggered_170 = FALSE,
                !.pellets = w.initial_pellets,
                !.power_pills = w.initial_power_pills,
                !.pellets_remaining =
                   Cardinality(w.initial_pellets)
                   + Cardinality(w.initial_power_pills)])
  IN IF Raised(r) THEN r ELSE [r EXCEPT !.speed = Max(SpeedFloor, @ - SpeedStep)]

\* Faulty variant: level and tick interval survive the reset.
ResetGameKeepsLevel(w, s) ==
  ResetPositions(w,
    [s EXCEPT
       !.score = 0, !.lives = InitialLives,
       !.game_over = FALSE, !.won = FALSE,
       !.power_elapsed = NoTimer,
       !.extra_life_awarded = FALSE,
       !.fruit_active = FALSE, !.fruit_elapsed = 0,
       !.dots_eaten = 0,
       !.fruit_triggered_70 = FALSE, !.fruit_triggered_170 = FALSE,
       !.pellets = w.initial_pellets,
       !.power_pills = w.initial_power_pills,
       !.pellets_remaining =
          Cardinality(w.initial_pellets)
          + Cardinality(w.initial_power_pills)])

ResetGame(w, s) ==
  ResetPositions(w,
    [s EXCEPT
                !.score = 0, !.lives = InitialLives,
                !.game_over = FALSE, !.won = FALSE,
                !.power_elapsed = NoTimer,
                !.level = InitialLevel,
                !.extra_life_awarded = FALSE,
                !.fruit_active = FALSE, !.fruit_elapsed = 0,
                !.dots_eaten = 0,
                !.fruit_triggered_70 = FALSE, !.fruit_triggered_170 = FALSE,
                !.pellets = w.initial_pellets,
                !.power_pills = w.initial_power_pills,
                !.pellets_remaining =
                   Cardinality(w.initial_pellets)
                   + Cardinality(w.initial_power_pills),
                !.speed = InitialSpeed])

\* The levels a behaviour can start on: 1, and the levels on which the
\* games in progress of SpecLevels and SpecLate start.
StartLevels ==
  { InitialLevel, InitialLevel + LevelsNearFloor, InitialLevel + LevelsCleared }

\* The level the running behaviour started on.  Only the cap on Advance
\* reads it.
LevelBase(l) ==
  CHOOSE b \in StartLevels :
    /\ b <= l
    /\ \A c \in StartLevels : c <= l => c <= b

(***************************************************************************)
(* Game.run: the key handlers                                              *)
(***************************************************************************)
NoTick == pm' = NoMove /\ ev' = NoEvent /\ gi' = 0

\* 'q' or 'Q': leave the loop.
KeyQuit ==
  /\ pc = "loop"
  /\ pc' = "quit"
  /\ UNCHANGED << map_file, gameVars, gi, pm, ev >>

\* The handler of a key goes on in the loop with the fields r, or, when r
\* is an exception, the program ends (pc = "fault") with the fields as they
\* were when it was raised: run catches nothing.
KeyHandled(r) ==
  IF Raised(r)
  THEN SetState(r.at) /\ pc' = "fault"
  ELSE SetState(r) /\ pc' = pc

\* 'r' or 'R': reset_game, if the game is over or the level is won.
KeyReset ==
  /\ pc = "loop"
  /\ IF game_over \/ won
     THEN KeyHandled(ResetGame(W, St))
     ELSE UNCHANGED << gameVars, pc >>
  /\ UNCHANGED << map_file, gi, pm, ev >>

\* Faulty variant: next_level is called whether the level is won or not.
KeyAdvanceAlways ==
  /\ pc = "loop"
  /\ level < LevelBase(level) + MaxAdvances
  /\ KeyHandled(NextLevel(W, St))
  /\ UNCHANGED << map_file, gi, pm, ev >>

\* ' ': next_level, if the level is won.
KeyAdvance ==
  /\ pc = "loop"
  /\ won => level < LevelBase(level) + MaxAdvances
  /\ IF won
     THEN KeyHandled(NextLevel(W, St))
     ELSE UNCHANGED << gameVars, pc >>
  /\ UNCHANGED << map_file, gi, pm, ev >>

\* An arrow key while playing: buffer the direction.  The assignment to
\* self.pacman.next_dy raises AttributeError when self.pacman is None;
\* nothing in run catches it, and the program ends (pc = "fault").
KeyDirection ==
  /\ pc = "loop"
  /\ ~game_over /\ ~won
  /\ IF HasPacman(pacman)
     THEN /\ \E d \in Directions :
               pacman' = [pacman EXCEPT !.next_dy = d.dy, !.next_dx = d.dx]
          /\ pc' = pc
     ELSE /\ pacman' = pacman
          /\ pc' = "fault"
  /\ UNCHANGED << map_file, ghosts, pellets, power_pills, pellets_remaining,
                  score, lives, level, game_over, won, extra_life_awarded,
                  power_elapsed, fruit_active, fruit_elapsed, dots_eaten,
                  fruit_triggered_70, fruit_triggered_170, speed,
                  gi, pm, ev >>

(***************************************************************************)
(* Game.run: the tick ("Update game state")                                *)
(***************************************************************************)
\* The adversaries that are frightened in state s.
Frightened(s) == { k \in 1..Len(s.ghosts) : s.ghosts[k].frightened }

\* What move_pacman is about to do, for the record of the tick, and the
\* adversaries that are frightened (fr) and the lives left (lives) as the
\* tick begins.
PacmanMoveRecord(w, s) ==
  [kind |-> IF HasPacman(s.pacman)
            THEN PacmanMoveKind(w, ApplyBuffer(w, s.pacman))
            ELSE "absent",
   from |-> PosOf(s.pacman),
   to |-> IF HasPacman(s.pacman)
          THEN PosOf(PacmanContinue(w, ApplyBuffer(w, s.pacman)))
          ELSE PosOf(s.pacman),
   fr |-> Frightened(s),
   lives |-> s.lives]

MovePacman ==
  /\ pc = "loop"
  /\ ~game_over /\ ~won
  /\ \E dt \in 1..MaxDt : SetState(MovePacmanOp(W, Elapse(St, dt)))
  /\ pm' = PacmanMoveRecord(W, St)
  /\ pc' = "ghosts"
  /\ UNCHANGED << map_file, gi, ev >>

MoveGhostsBegin ==
  /\ pc = "ghosts"
  /\ SetState(ExpireTimers(St))
  /\ IF Len(ghosts) = 0
     THEN pc' = "sweep" /\ gi' = 0
     ELSE pc' = "ghost" /\ gi' = 1
  /\ UNCHANGED << map_file, pm, ev >>

MoveGhost ==
  /\ pc = "ghost"
  /\ \E o \in MoveGhostOutcomes(W, St, gi) :
       /\ SetState(o.s)
       /\ ev' = o.ev
       /\ IF (o.ev.hit /\ o.s.game_over) \/ gi = Len(ghosts)
          THEN pc' = "sweep" /\ gi' = 0
          ELSE pc' = "ghost" /\ gi' = gi + 1
  /\ UNCHANGED << map_file, pm >>

CheckCollisions ==
  /\ pc = "sweep"
  /\ SetState(CheckCollisionsOp(W, St))
  /\ pc' = "loop"
  /\ NoTick
  /\ UNCHANGED map_file

(***************************************************************************)
(* Specification                                                           *)
(***************************************************************************)
Init ==
  /\ map_file = "corridor"
  /\ StartsAs(InitState(W))
  /\ pc = "loop" /\ gi = 0 /\ pm = NoMove /\ ev = NoEvent

Next ==
  \/ KeyQuit
  \/ KeyReset
  \/ KeyAdvance
  \/ KeyDirection
  \/ MovePacman
  \/ MoveGhostsBegin
  \/ MoveGhost
  \/ CheckCollisions

Spec == Init /\ [][Next]_vars

(***************************************************************************)
(* A game in progress.  In the lane maze a level has one way to be cleared *)
(* without losing a life: the player eats the power pill, then the pellet, *)
(* and the adversary, which can only walk towards the player, is consumed  *)
(* on the way; that is PowerPillScore + PelletScore + GhostScore a level.  *)
(* SpecLate starts in the state the Advance command leaves after           *)
(* LevelsCleared such levels (LaneStateReached checks one of them).        *)
(***************************************************************************)
LaneLevelScore == PowerPillScore + PelletScore + GhostScore

LateState(w) ==
  [InitState(w) EXCEPT
     !.level = InitialLevel + LevelsCleared,
     !.score = LevelsCleared * LaneLevelScore,
     !.speed = Max(SpeedFloor, InitialSpeed - LevelsCleared * SpeedStep)]

InitLate ==
  /\ map_file = "lane"
  /\ StartsAs(LateState(W))
  /\ pc = "loop" /\ gi = 0 /\ pm = NoMove /\ ev = NoEvent

SpecLate == InitLate /\ [][Next]_vars

\* The lane maze from the constructor's state.
InitLane ==
  /\ map_file = "lane"
  /\ StartsAs(InitState(W))
  /\ pc = "loop" /\ gi = 0 /\ pm = NoMove /\ ev = NoEvent

SpecLane == InitLane /\ [][Next]_vars

\* After one level of the lane maze the game is in the state LateState
\* describes for one cleared level.
LaneStateReached ==
  /\ pc = "loop"
  /\ St = [InitState(W) EXCEPT !.level = InitialLevel + 1,
                               !.score = LaneLevelScore,
                               !.speed = InitialSpeed - SpeedStep]

(***************************************************************************)
(* Games in progress on several levels.  LaneAfter is the state the        *)
(* Advance command leaves after n cleared levels of the lane maze:         *)
(* a fresh game, one step above the floor of the tick interval, and on it. *)
(***************************************************************************)
LaneAfter(w, n) ==
  [InitState(w) EXCEPT
     !.level = InitialLevel + n,
     !.score = n * LaneLevelScore,
     !.speed = Max(SpeedFloor, InitialSpeed - n * SpeedStep)]

InitLevels ==
  /\ map_file = "lane"
  /\ \E n \in {0, LevelsNearFloor, LevelsCleared} : StartsAs(LaneAfter(W, n))
  /\ pc = "loop" /\ gi = 0 /\ pm = NoMove /\ ev = NoEvent

SpecLevels == InitLevels /\ [][Next]_vars

(***************************************************************************)
(* The maze with two power pills.                                          *)
(***************************************************************************)
InitPills ==
  /\ map_file = "pills"
  /\ StartsAs(InitState(W))
  /\ pc = "loop" /\ gi = 0 /\ pm = NoMove /\ ev = NoEvent

SpecPills == InitPills /\ [][Next]_vars

(***************************************************************************)
(* The maze of two rows.                                                   *)
(***************************************************************************)
InitBlock ==
  /\ map_file = "block"
  /\ StartsAs(InitState(W))
  /\ pc = "loop" /\ gi = 0 /\ pm = NoMove /\ ev = NoEvent

SpecBlock == InitBlock /\ [][Next]_vars

(***************************************************************************)
(* The lane with an adversary on each side of the player.                  *)
(***************************************************************************)
InitBeside ==
  /\ map_file = "beside"
  /\ StartsAs(InitState(W))
  /\ pc = "loop" /\ gi = 0 /\ pm = NoMove /\ ev = NoEvent

SpecBeside == InitBeside /\ [][Next]_vars

(***************************************************************************)
(* The maze of two rows with a wall and a tunnel.                          *)
(***************************************************************************)
InitYard ==
  /\ map_file = "yard"
  /\ StartsAs(InitState(W))
  /\ pc = "loop" /\ gi = 0 /\ pm = NoMove /\ ev = NoEvent

SpecYard == InitYard /\ [][Next]_vars

(***************************************************************************)
(* The mazes with a bonus-item home: the orchard and the grove.            *)
(***************************************************************************)
InitFruit ==
  /\ map_file \in {"orchard", "grove"}
  /\ StartsAs(InitState(W))
  /\ pc = "loop" /\ gi = 0 /\ pm = NoMove /\ ev = NoEvent

SpecFruit == InitFruit /\ [][Next]_vars

(***************************************************************************)
(* Boards with nothing to collect: no maze file at all, and a maze with a  *)
(* player and an adversary only; the lane maze stands beside them.         *)
(***************************************************************************)
InitBoards ==
  /\ map_file \in {"missing", "bare", "lane"}
  /\ StartsAs(InitState(W))
  /\ pc = "loop" /\ gi = 0 /\ pm = NoMove /\ ev = NoEvent

SpecBoards == InitBoards /\ [][Next]_vars


(***************************************************************************)
(* Properties                                                              *)
(***************************************************************************)
\* A Reset command that run accepts, and an Advance command it accepts.
AcceptedReset == (game_over \/ won) /\ KeyReset
AcceptedAdvance == won /\ KeyAdvance

\* The step of a tick in which move_pacman runs.
PlayerStep == pc = "loop" /\ pc' = "ghosts"

GhostIndices == 1..Len(ghosts)

\* C1: in every reachable state pellets_remaining is the number of
\* positions in pellets plus the number of positions in power_pills.
C1_PelletsRemaining ==
  pellets_remaining = Cardinality(pellets) + Cardinality(power_pills)

\* C1 witness: on a later level, after a life was lost, with one of the two
\* collectibles eaten.
C1_Witness ==
  /\ level > InitialLevel
  /\ lives < InitialLives
  /\ pellets_remaining = 1
  /\ pc = "loop"

\* C2: once won is true, adversary positions, lives, score and game_over
\* stay as they are until an Advance or a Reset command is accepted.
C2_WonSuspends ==
  [][won =>
       \/ AcceptedReset
       \/ AcceptedAdvance
       \/ /\ \A k \in GhostIndices : PosOf(ghosts'[k]) = PosOf(ghosts[k])
          /\ lives' = lives
          /\ score' = score
          /\ game_over' = game_over]_vars

\* C3: once game_over is set, score, lives and every adversary's position
\* and frightened flag stay as they are until a Reset command is accepted.
C3_GameOverSuspends ==
  [][game_over =>
       \/ AcceptedReset
       \/ /\ score' = score
          /\ lives' = lives
          /\ \A k \in GhostIndices :
               /\ PosOf(ghosts'[k]) = PosOf(ghosts[k])
               /\ ghosts'[k].frightened = ghosts[k].frightened]_vars

\* C4: at the end of every tick with score >= 10000 the extra life of the
\* current game has been granted.
C4_ExtraLifeAtThreshold ==
  (pc = "loop" /\ score >= ExtraLifeScore) => extra_life_awarded

\* C5: lives grows only by the one extra life, granted when the flag goes
\* from false to true, or by a Reset; and only a Reset clears the flag.
C5_ExtraLifeOnce ==
  [][/\ lives' > lives =>
          \/ AcceptedReset
          \/ ~extra_life_awarded /\ extra_life_awarded' /\ lives' = lives + 1
     /\ (extra_life_awarded /\ ~extra_life_awarded') => AcceptedReset]_vars

\* C5 witness: the extra life is held, on a level reached by an Advance,
\* and both collectibles of the level were eaten with score >= 10000: the
\* second pickup came after the grant and did not grant again.
C5_Witness ==
  /\ extra_life_awarded
  /\ lives = InitialLives + 1
  /\ level > InitialLevel + LevelsCleared
  /\ dots_eaten = 2
  /\ score >= ExtraLifeScore

\* C6: if in one tick the player takes a normal step from A to B and an
\* adversary takes a normal step from B to A, a collision event is
\* triggered for that adversary.
C6_CrossingDetected ==
  (/\ pm.kind = "step"
   /\ ev.kind = "step"
   /\ ev.from = pm.to
   /\ ev.to = pm.from) => ev.hit

\* C7: if in one tick the player wraps from one tunnel endpoint to the other
\* and an adversary wraps the opposite way (the player's pre-move cell is
\* the adversary's current cell, the adversary's pre-wrap cell is the
\* player's current cell), a collision event is triggered for it.
C7_TunnelCrossingDetected ==
  (/\ pm.kind = "warp"
   /\ ev.kind = "warp"
   /\ ev.pat = pm.to
   /\ ev.from = ev.pat
   /\ ev.to = pm.from) => ev.hit

\* The velocity of the player once a legal buffered direction is applied.
BufferedVelocity ==
  IF (pacman.next_dy /= 0 \/ pacman.next_dx /= 0)
     /\ IsValidMove(W, pacman.y + pacman.next_dy, pacman.x + pacman.next_dx)
  THEN [dy |-> pacman.next_dy, dx |-> pacman.next_dx]
  ELSE [dy |-> pacman.dy, dx |-> pacman.dx]

\* C8: with both tunnel endpoints, a player that after the buffered
\* direction is on warp_left with negative-column velocity is moved to
\* warp_right by move_pacman, velocity unchanged; and symmetrically.
C8_PlayerTunnelWrap ==
  [][(PlayerStep /\ HasWarp(W)) =>
       /\ (PosOf(pacman) = W.warp_left /\ BufferedVelocity.dx < 0) =>
            /\ PosOf(pacman') = W.warp_right
            /\ pacman'.dy = BufferedVelocity.dy
            /\ pacman'.dx = BufferedVelocity.dx
       /\ (PosOf(pacman) = W.warp_right /\ BufferedVelocity.dx > 0) =>
            /\ PosOf(pacman') = W.warp_left
            /\ pacman'.dy = BufferedVelocity.dy
            /\ pacman'.dx = BufferedVelocity.dx]_vars

\* C8 witness: move_pacman has just wrapped the player from warp_left.
C8_Witness ==
  /\ pc = "ghosts"
  /\ pm.kind = "warp"
  /\ pm.from = W.warp_left
  /\ PosOf(pacman) = W.warp_right
  /\ pacman.dx < 0

\* C9: the pickup on a pellet removes that position from pellets, adds 10
\* and leaves power_pills and the frightened flags alone; on a power pill
\* it removes that position from power_pills, adds 50, sets every
\* frightened flag and restarts the power-mode timer.
C9_Pickup ==
  [][PlayerStep =>
       /\ PosOf(pacman') \in pellets =>
            /\ pellets' = pellets \ {PosOf(pacman')}
            /\ score' = score + PelletScore
            /\ power_pills' = power_pills
            /\ \A k \in GhostIndices :
                 ghosts'[k].frightened = ghosts[k].frightened
       /\ PosOf(pacman') \in power_pills =>
            /\ power_pills' = power_pills \ {PosOf(pacman')}
            /\ pellets' = pellets
            /\ score' = score + PowerPillScore
            /\ \A k \in GhostIndices : ghosts'[k].frightened
            /\ power_elapsed' = 0]_vars

\* C9 witness: move_pacman has just eaten the power pill, after the pellet,
\* and both adversaries are frightened.
C9_Witness ==
  /\ pc = "ghosts"
  /\ pm.to \in W.initial_power_pills
  /\ power_pills = {}
  /\ pellets = {}
  /\ power_elapsed = 0
  /\ Len(ghosts) = 2
  /\ \A k \in GhostIndices : ghosts[k].frightened

\* What resolving a collision with frightened adversary i must do.
Consumed(i) ==
  /\ lives' = lives
  /\ game_over' = game_over
  /\ score' = score + GhostScore
  /\ PosOf(ghosts'[i]) = W.ghost_starts[i]
  /\ ghosts'[i].dy = 0 /\ ghosts'[i].dx = 0
  /\ ~ghosts'[i].frightened
  /\ \A k \in GhostIndices \ {i} : ghosts'[k] = ghosts[k]
  /\ pacman' = pacman

\* C10: resolving a collision with a frightened adversary, after its move
\* or in the final sweep, leaves lives and game_over alone, adds 200, puts
\* that adversary on its start with zero velocity and the flag cleared, and
\* leaves the player and the other adversaries as they are.
C10_FrightenedConsumed ==
  [][/\ (pc = "ghost" /\ ev'.hit /\ ev'.frightened) => Consumed(gi)
     /\ (pc = "sweep" /\ CoLocated(St) /= {}
           /\ ghosts[SetMin(CoLocated(St))].frightened)
          => Consumed(SetMin(CoLocated(St)))]_vars

\* C10 witness: a frightened adversary was just consumed after its move
\* while the other adversary is frightened and away from its start.
C10_Witness ==
  /\ ev.hit /\ ev.frightened
  /\ \E k \in GhostIndices \ {ev.g} :
       ghosts[k].frightened /\ PosOf(ghosts[k]) /= W.ghost_starts[k]

\* The step of a tick in which move_ghosts runs its expiry checks.
ExpiryStep == pc = "ghosts" /\ pc' /= "ghosts"

\* C11: power mode lasts 6 time-units from the latest power-pill pickup.
\* A pickup restarts the timer at 0, also while it is running; the expiry
\* check of a tick clears no frightened flag while the time since the
\* latest pickup is at most 6; and once the expiry check of a tick has
\* run, every adversary that is frightened has a running timer that reads
\* at most 6: none is frightened more than 6 time-units after the pickup.
C11_PowerModeWindow ==
  [][/\ (PlayerStep /\ PosOf(pacman') \in power_pills) => power_elapsed' = 0
     /\ (ExpiryStep /\ power_elapsed <= PowerSeconds) =>
          \A k \in GhostIndices : ghosts'[k].frightened = ghosts[k].frightened
     /\ (pc' \in {"ghost", "sweep"} \/ pc = "sweep") =>
          \A k \in GhostIndices :
            ghosts'[k].frightened =>
              power_elapsed' /= NoTimer /\ power_elapsed' <= PowerSeconds]_vars

\* C11 witness: move_pacman has just eaten the second power pill while the
\* adversary was still frightened from the first, and the timer reads 0.
C11_Witness ==
  /\ pc = "ghosts"
  /\ pm.to \in W.initial_power_pills
  /\ pm.fr /= {}
  /\ power_pills = {}
  /\ power_elapsed = 0

\* C12: in a maze with a bonus-item home the bonus item goes from inactive
\* to active only in the move_pacman step of a tick whose pickup brings the
\* per-level counter to exactly 70 or exactly 170, with the trigger of that
\* threshold unused before and used after; a used trigger is re-armed only
\* by an accepted Advance or Reset, and each of them re-arms both; a step
\* that takes a life leaves both triggers as they were.
C12_FruitThresholds ==
  [][/\ (~fruit_active /\ fruit_active') =>
          /\ PlayerStep
          /\ W.initial_fruit /= NoPoint
          /\ dots_eaten' = dots_eaten + 1
          /\ \/ /\ dots_eaten' = FruitDots70
                /\ ~fruit_triggered_70 /\ fruit_triggered_70'
             \/ /\ dots_eaten' = FruitDots170
                /\ ~fruit_triggered_170 /\ fruit_triggered_170'
     /\ (\/ fruit_triggered_70 /\ ~fruit_triggered_70'
         \/ fruit_triggered_170 /\ ~fruit_triggered_170') =>
          AcceptedAdvance \/ AcceptedReset
     /\ (AcceptedAdvance \/ AcceptedReset) =>
          ~fruit_triggered_70' /\ ~fruit_triggered_170'
     /\ lives' < lives =>
          /\ fruit_triggered_70' = fruit_triggered_70
          /\ fruit_triggered_170' = fruit_triggered_170]_vars

\* On a level reached by an Advance, move_pacman has just eaten the 70th
\* collectible of the level and the bonus item is active again.
SpawnAfterAdvance ==
  /\ pc = "ghosts"
  /\ level > InitialLevel
  /\ dots_eaten = FruitDots70
  /\ fruit_active /\ fruit_elapsed = 0
  /\ fruit_triggered_70 /\ ~fruit_triggered_170

\* C12 witness: the 70th collectible of the level has spawned the bonus
\* item, then a hit has taken a life and reset_positions has put every
\* agent back on its start: the first trigger is still used and the item
\* is still active.
C12_Witness ==
  /\ pc = "loop"
  /\ lives = InitialLives - 1
  /\ ~game_over /\ ~won
  /\ dots_eaten = FruitDots70
  /\ fruit_triggered_70 /\ ~fruit_triggered_170
  /\ fruit_active
  /\ PosOf(pacman) = W.pacman_start
  /\ \A k \in 1..Len(ghosts) : PosOf(ghosts[k]) = W.ghost_starts[k]

\* C13: the expiry check of a tick leaves an active bonus item active while
\* at most 10 time-units have passed since its latest spawn; once the
\* expiry check of a tick has run, an active bonus item was spawned at most
\* 10 time-units ago; and a player that move_pacman puts on the home of an
\* active bonus item scores exactly 100 and deactivates it.
C13_FruitTimer ==
  [][/\ (ExpiryStep /\ fruit_active /\ fruit_elapsed <= FruitSeconds) =>
          fruit_active'
     /\ (pc' \in {"ghost", "sweep"} \/ pc = "sweep") =>
          (fruit_active' => fruit_elapsed' <= FruitSeconds)
     /\ (PlayerStep /\ fruit_active /\ PosOf(pacman') = W.initial_fruit) =>
          /\ score' = score + FruitScore
          /\ ~fruit_active']_vars

\* C13 witness: move_pacman has just collected the bonus item that the
\* 70th pellet of the first level spawned.
C13_Witness ==
  /\ pc = "ghosts"
  /\ pm.to = W.initial_fruit
  /\ ~fruit_active
  /\ fruit_triggered_70
  /\ dots_eaten = FruitDots70
  /\ score = FruitDots70 * PelletScore + FruitScore

\* Every agent is on its recorded start position with zero velocity.
AgentsAtStart ==
  /\ PosOf(pacman) = W.pacman_start
  /\ pacman.dy = 0 /\ pacman.dx = 0
  /\ \A k \in GhostIndices :
       /\ PosOf(ghosts[k]) = W.ghost_starts[k]
       /\ ghosts[k].dy = 0 /\ ghosts[k].dx = 0

\* C14: an Advance command accepted in Won adds 1 to level, clears won,
\* restores pellets and power_pills to the initial snapshots, puts every
\* agent on its start with zero velocity, leaves score, lives and the
\* extra-life flag alone and lowers the tick interval by 0.01 but not
\* below 0.08; so an Advance never raises the interval, and the interval
\* is never below 0.08.
C14_Advance ==
  [][/\ AcceptedAdvance =>
          /\ level' = level + 1
          /\ ~won'
          /\ pellets' = W.initial_pellets
          /\ power_pills' = W.initial_power_pills
          /\ AgentsAtStart'
          /\ score' = score /\ lives' = lives
          /\ extra_life_awarded' = extra_life_awarded
          /\ speed' = IF speed - SpeedStep >= SpeedFloor
                      THEN speed - SpeedStep ELSE SpeedFloor
          /\ speed' <= speed
     /\ speed' >= SpeedFloor]_vars

\* C14 witness: the level after the one that starts one step above the
\* floor has just begun: the Advance lowered the interval onto the floor
\* and kept the score of the cleared levels.
C14_Witness ==
  /\ pc = "loop"
  /\ level = InitialLevel + LevelsNearFloor + 1
  /\ speed = SpeedFloor
  /\ score > LevelsNearFloor * LaneLevelScore
  /\ dots_eaten = 0
  /\ pellets = W.initial_pellets /\ power_pills = W.initial_power_pills
  /\ AgentsAtStart

\* C15: with lives = 1, resolving a collision with an adversary that is not
\* frightened, after its move or in the final sweep, sets game_over and
\* leaves lives = 0; a Reset command accepted in the finished game gives
\* lives = 3, score = 0, level = 1, game_over and won false, the initial
\* collectibles and the initial tick interval.
C15_LastLifeAndReset ==
  [][/\ (pc = "ghost" /\ ev'.hit /\ ~ev'.frightened /\ lives = 1) =>
          game_over' /\ lives' = 0
     /\ (pc = "sweep" /\ CoLocated(St) /= {} /\ lives = 1
           /\ ~ghosts[SetMin(CoLocated(St))].frightened) =>
          game_over' /\ lives' = 0
     /\ (game_over /\ KeyReset) =>
          /\ lives' = InitialLives /\ score' = 0 /\ level' = InitialLevel
          /\ ~game_over' /\ ~won'
          /\ pellets' = W.initial_pellets
          /\ power_pills' = W.initial_power_pills
          /\ speed' = InitialSpeed]_vars

\* C15 witness: the last life was lost on a level reached by an Advance,
\* with points scored and a collectible eaten, and the loop waits for Reset.
C15_Witness ==
  /\ pc = "loop"
  /\ game_over /\ lives = 0 /\ ~won
  /\ level > InitialLevel /\ speed < InitialSpeed
  /\ score > 0
  /\ pellets_remaining < Cardinality(W.initial_pellets \cup W.initial_power_pills)

\* C16: an Advance command while won is false, and a Reset command while
\* neither won nor game_over is true, change nothing: score, lives, level,
\* collectibles, agents, timers and every other field stay as they were,
\* and the loop goes on.
C16_IgnoredCommands ==
  [][/\ (~won /\ KeyAdvance) => UNCHANGED gameVars /\ pc' = "loop"
     /\ (~won /\ ~game_over /\ KeyReset) =>
          UNCHANGED gameVars /\ pc' = "loop"]_vars

\* C16 witness: the loop reads its next key in the middle of a game: a life
\* was lost, points were scored, the player moves, an adversary is
\* frightened and the power-mode timer runs.
C16_Witness ==
  /\ pc = "loop"
  /\ ~won /\ ~game_over
  /\ lives < InitialLives /\ score > 0
  /\ pacman.dx /= 0
  /\ power_elapsed > 0
  /\ \E k \in GhostIndices : ghosts[k].frightened

\* C17: with an empty world (no maze source, hence no player, no adversary
\* and no collectible) no key and no tick makes the program fault.
C17_EmptyWorldNoFault ==
  (/\ ~FileExists(map_file)
   /\ ~HasPacman(pacman) /\ Len(ghosts) = 0
   /\ pellets = {} /\ power_pills = {}) => pc /= "fault"

\* C18: on a board with no collectible at level start (no maze loaded, or a
\* maze with a player start and neither pellet nor power pill) won never
\* becomes true.
C18_NoWinOnEmptyBoard ==
  (W.initial_pellets = {} /\ W.initial_power_pills = {}) => ~won

\* C19: the expiry checks of a tick come after its collisions: an adversary
\* that was frightened when the tick began and is the first to contact the
\* player in that tick is still frightened when the contact is resolved,
\* and the contact costs no life.
C19_ExpiryAfterCollisions ==
  [][(pc = "ghost" /\ gi \in pm.fr /\ ~ev.hit /\ ev'.hit) =>
       ev'.frightened /\ lives' = lives]_vars

\* C20: after a hit by an adversary that is not frightened, with a life
\* left, no adversary later in the list moves or picks a direction in that
\* tick: the step of move_ghosts that follows the hit leaves the player and
\* every adversary on their starts with zero velocity, no frightened flag
\* and the power-mode timer off.
C20_HitInterrupts ==
  [][(pc = "ghost" /\ ev.hit /\ ~ev.frightened /\ lives > 0) =>
       /\ AgentsAtStart'
       /\ \A k \in GhostIndices : ~ghosts'[k].frightened
       /\ power_elapsed' = NoTimer]_vars

\* C21: the final sweep resolves a collision for every adversary on the
\* player's cell, so when a tick has ended, and not in game over, no
\* adversary is on the player's cell.
C21_SweepClearsCell ==
  (pc = "loop" /\ ~game_over /\ HasPacman(pacman)) => CoLocated(St) = {}

\* C22: an adversary consumed while frightened costs no life in the same
\* tick: when the last adversary step of the tick consumed a frightened
\* adversary and that adversary is the only one the final sweep finds on
\* the player's cell (the player stands on its start), the sweep leaves
\* lives as it is.
C22_ConsumedCostsNoLife ==
  [][(pc = "sweep" /\ ev.hit /\ ev.frightened /\ CoLocated(St) = {ev.g}) =>
       lives' = lives]_vars

\* C23: no step leads to a state in which won and game_over are both true,
\* and no step of a finished game (game_over true) raises level.
C23_WonXorGameOver ==
  [][/\ ~(won' /\ game_over')
     /\ game_over => level' <= level]_vars

\* C24: lives decreases by at most 1 in any single tick: at every point of
\* a tick, lives is at least the lives of the beginning of the tick less 1.
C24_OneLifePerTick ==
  pm.kind /= "none" => lives >= pm.lives - 1

\* C25: in every reachable state game_over is true exactly when lives = 0,
\* and lives is within 0..4: never negative and never more than the initial
\* lives plus the one extra life.
C25_GameOverIffNoLives ==
  /\ game_over <=> lives = 0
  /\ lives \in 0..(InitialLives + 1)

\* a game that was awarded the extra life (lives was 4) and is over
C25_Witness ==
  game_over /\ lives = 0 /\ extra_life_awarded

\* Position p is a cell of the loaded maze that is not a wall.
OnOpenCell(p) ==
  /\ 0 <= p.y /\ p.y < W.height /\ 0 <= p.x /\ p.x < W.width
  /\ p \notin W.wall

\* From old to new is no move, one cell along one axis, a tunnel wrap
\* between the two endpoints, or a return to the recorded start.
MoveAllowed(old, new, start) ==
  \/ new = old
  \/ new.y = old.y /\ (new.x = old.x + 1 \/ new.x = old.x - 1)
  \/ new.x = old.x /\ (new.y = old.y + 1 \/ new.y = old.y - 1)
  \/ HasWarp(W) /\ {old, new} = {W.warp_left, W.warp_right}
  \/ new = start

\* C26: for a loaded maze, before and after every step the player and every
\* adversary occupy an in-bounds cell that is not a wall, and the step
\* changes the position of each agent by at most one cell along one axis
\* unless it is a tunnel wrap between warp_left and warp_right or a reset to
\* the agent's recorded start position.
C26_AgentsOnOpenCells ==
  [][(FileExists(map_file) /\ HasPacman(pacman)) =>
       /\ OnOpenCell(PosOf(pacman)) /\ OnOpenCell(PosOf(pacman'))
       /\ MoveAllowed(PosOf(pacman), PosOf(pacman'), W.pacman_start)
       /\ \A k \in GhostIndices :
            /\ OnOpenCell(PosOf(ghosts[k])) /\ OnOpenCell(PosOf(ghosts'[k]))
            /\ MoveAllowed(PosOf(ghosts[k]), PosOf(ghosts'[k]),
                           W.ghost_starts[k])]_vars

\* the player went through the tunnel and, in the same tick, an adversary
\* next to the wall moved from one row to the other
C26_Witness ==
  /\ pc = "sweep"
  /\ pm.kind = "warp"
  /\ ev.kind = "step" /\ ev.from.y /= ev.to.y
  /\ W.wall /= {}

====
